---- MODULE Spec2Model ----
(***************************************************************************)
(* Model of the Movement bridge adapters                                   *)
(*   protocol-units/bridge/service/src/chains/movement/client.rs           *)
(*   protocol-units/bridge/chains/movement/src/lib.rs                      *)
(* Every role operation builds a payload, submits it as a transaction and  *)
(* awaits its confirmation.  The handlers are async: a call is split at    *)
(* its await point into the step that submits and the step that maps the   *)
(* outcome of the submission into the value returned to the caller.        *)
(* The on-chain modules (atomic_bridge_initiator and                       *)
(* atomic_bridge_counterparty) and the transaction executor in utils are   *)
(* not part of the sources; they are modelled from the specification.      *)
(***************************************************************************)
EXTENDS Integers, Sequences, FiniteSets, TLC

(* ---------------------------- bounds ----------------------------------- *)
MaxTime == 1          \* the chain clock runs over 0..MaxTime
MaxTxs == 2           \* transactions submitted in one behaviour

(* ---------------------------- domains ---------------------------------- *)
TransferIds == {1}
PreImages == {0, 1}
TimeLocks == {1}
AssetTypes == {"Moveth", "EthAndWeth"}

\* concurrent callers (tasks); both adapter structs derive Clone, so every
\* caller holds its own handle on each adapter
Clients == {"a", "b"}
\* "service" is client.rs, "counterparty" is lib.rs
Adapters == {"service", "counterparty"}

COUNTERPARTY_MODULE_NAME == "atomic_bridge_counterparty"
INITIATOR_MODULE_NAME == "atomic_bridge_initiator"

\* the on-chain digest of a preimage (a many-to-one function)
Digest(p) == ((2 * p) + 1) % 3
HashLocks == {Digest(p) : p \in PreImages}

Terminal == {"Completed", "Refunded", "Aborted"}
RoleOps == {"lock", "complete", "refund", "abort"}

\* now: the chain clock; initiatorStore, counterpartyStore: the transfers
\* of the two on-chain modules; calls: the call each caller is in;
\* orphans: payloads submitted by calls that have returned and still pending
\* (a second copy of a pending payload can only revert, so a set is enough);
\* nsub: transactions submitted so far; view: the get_bridge_transfer_details
\* call in progress and the transfer it looks up
VARIABLES now, initiatorStore, counterpartyStore, calls, orphans, nsub, view

vars == <<now, initiatorStore, counterpartyStore, calls, orphans, nsub, view>>

NoTransfer == [state |-> "None", hash_lock |-> 0, time_lock |-> 0]

\* a call of a role operation by one caller: the handler's position (pc),
\* the payload it built, the fate of its transaction on the chain (status,
\* and the state and time the chain executed it in), the outcome the
\* executor handed back, the value returned, and the RPCs the handler issued
IdleCall ==
  [pc |-> "idle", adapter |-> "none", op |-> "none", t |-> 0,
   hash_lock |-> 0, time_lock |-> 0, preimage |-> 0, asset |-> "none",
   status |-> "none", pre |-> "None", at |-> 0,
   outcome |-> "none", result |-> "none", reason |-> "", rpc |-> <<>>]

\* the module an operation's entry function lives in
ModuleOf(op) ==
  IF op \in {"initiate", "refund"} THEN INITIATOR_MODULE_NAME
  ELSE COUNTERPARTY_MODULE_NAME

\* State(t) as the module targeted by op holds it
StateOf(op, t) ==
  IF t \notin TransferIds THEN "None"
  ELSE IF ModuleOf(op) = INITIATOR_MODULE_NAME THEN initiatorStore[t].state
  ELSE counterpartyStore[t].state

(* ------------- outcome -> returned value, one per handler -------------- *)
InitiateResultSwallowed(outcome) == "Ok"

\* client.rs: .await.map_err(|_| InitiateTransferError)?; Ok(())
InitiateResult(outcome) ==
  IF outcome = "confirmed" THEN "Ok" ELSE "InitiateTransferError"

\* client.rs: let _ = ....await.map_err(|_| CompleteTransferError); Ok(())
CompleteResult(outcome) == "Ok"

\* client.rs: let _ = ....await.map_err(|_| LockTransferError); Ok(())
LockResult(outcome) == "Ok"

RefundResultSwallowed(outcome) == "Ok"

\* client.rs: ....await.map_err(|err| OnChainError(err.to_string()))?; Ok(())
RefundResult(outcome) ==
  IF outcome = "confirmed" THEN "Ok" ELSE "OnChainError"

\* client.rs: let result = ....await.map_err(|_| AbortTransferError); Ok(())
AbortResult(outcome) == "Ok"

\* lib.rs: let _ = ....await.map_err(|_| LockTransferAssetsError); Ok(())
LockAssetsResult(outcome) == "Ok"

\* lib.rs: let _ = ....await.map_err(|_| CompleteTransferError); Ok(())
CounterpartyCompleteResult(outcome) == "Ok"

\* lib.rs: let _ = ....await.map_err(|_| AbortTransferError); Ok(())
CounterpartyAbortResult(outcome) == "Ok"

\* the text of the executor's error (err.to_string())
ErrorText(outcome) ==
  CASE outcome = "reverted" -> "transaction reverted on chain"
    [] outcome = "rpc_failure" -> "rpc call failed"
    [] outcome = "timeout" -> "confirmation timed out"
    [] OTHER -> ""

RefundReasonDropped(outcome) == ""

\* client.rs: OnChainError(err.to_string()) is the one error of the role
\* operations that carries a text; the others are unit variants
RefundReason(outcome) ==
  IF outcome = "confirmed" THEN "" ELSE ErrorText(outcome)

ReasonOf(adapter, op, outcome) ==
  IF adapter = "service" /\ op = "refund" THEN RefundReason(outcome) ELSE ""

ResultOf(adapter, op, outcome) ==
  IF adapter = "service"
  THEN CASE op = "initiate" -> InitiateResult(outcome)
         [] op = "complete" -> CompleteResult(outcome)
         [] op = "lock" -> LockResult(outcome)
         [] op = "refund" -> RefundResult(outcome)
         [] op = "abort" -> AbortResult(outcome)
  ELSE CASE op = "lock" -> LockAssetsResult(outcome)
         [] op = "complete" -> CounterpartyCompleteResult(outcome)
         [] op = "abort" -> CounterpartyAbortResult(outcome)

(* --------------------------- entry functions --------------------------- *)
\* client.rs: the module, entry function, type arguments and ordered
\* arguments each handler hands to utils::make_aptos_payload
ServicePayload(op) ==
  CASE op = "initiate" ->
         [module |-> INITIATOR_MODULE_NAME,
          function |-> "initiate_bridge_transfer",
          type_args |-> <<>>,
          args |-> <<"recipient", "hash_lock", "time_lock", "amount">>]
    [] op = "complete" ->
         [module |-> COUNTERPARTY_MODULE_NAME,
          function |-> "complete_bridge_transfer",
          type_args |-> <<>>,
          args |-> <<"bridge_transfer_id", "preimage">>]
    [] op = "lock" ->
         [module |-> COUNTERPARTY_MODULE_NAME,
          function |-> "lock_bridge_transfer",
          type_args |-> <<>>,
          args |-> <<"initiator", "bridge_transfer_id", "hash_lock",
                     "time_lock", "recipient", "amount">>]
    [] op = "refund" ->
         [module |-> INITIATOR_MODULE_NAME,
          function |-> "refund_bridge_transfer",
          type_args |-> <<>>,
          args |-> <<"bridge_transfer_id">>]
    [] op = "abort" ->
         [module |-> COUNTERPARTY_MODULE_NAME,
          function |-> "abort_bridge_transfer",
          type_args |-> <<>>,
          args |-> <<"bridge_transfer_id">>]

\* lib.rs: the same for the three counterparty handlers; the type arguments
\* are those of counterparty_type_args
CounterpartyPayload(op) ==
  CASE op = "lock" ->
         [module |-> COUNTERPARTY_MODULE_NAME,
          function |-> "lock_bridge_transfer_assets",
          type_args |-> <<"Address", "U64", "U64", "U8">>,
          args |-> <<"initiator", "bridge_transfer_id", "hash_lock",
                     "time_lock", "recipient", "amount">>]
    [] op = "complete" ->
         [module |-> COUNTERPARTY_MODULE_NAME,
          function |-> "complete_bridge_transfer",
          type_args |-> <<"Address", "U64", "U8">>,
          args |-> <<"signer_address", "bridge_transfer_id", "preimage">>]
    [] op = "abort" ->
         [module |-> COUNTERPARTY_MODULE_NAME,
          function |-> "abort_bridge_transfer",
          type_args |-> <<"Address", "U64">>,
          args |-> <<"signer_address", "bridge_transfer_id">>]

make_aptos_payload(adapter, op) ==
  IF adapter = "service" THEN ServicePayload(op) ELSE CounterpartyPayload(op)

(* ------------------------ transaction executor ------------------------- *)
\* the payload of a call, as the chain sees it
PayloadOf(call) ==
  [op |-> call.op, t |-> call.t, hash_lock |-> call.hash_lock,
   time_lock |-> call.time_lock, preimage |-> call.preimage]

NewCall(ad, op, t, h, tl, p, asset) ==
  [IdleCall EXCEPT !.adapter = ad, !.op = op, !.t = t, !.hash_lock = h,
                   !.time_lock = tl, !.preimage = p, !.asset = asset]

\* build -> sign -> submit.  Either the payload reaches the chain and the
\* handler suspends awaiting confirmation, or the RPC fails and the
\* handler maps that failure at once.
send_and_confirm_aptos_transaction(c, ad, op, t, h, tl, p, asset) ==
  \/ /\ nsub' = nsub + 1
     /\ calls' = [calls EXCEPT ![c] =
          [NewCall(ad, op, t, h, tl, p, asset) EXCEPT
             !.pc = "inflight", !.status = "pending", !.rpc = <<"submit">>]]
  \/ /\ nsub' = nsub
     /\ calls' = [calls EXCEPT ![c] =
          [NewCall(ad, op, t, h, tl, p, asset) EXCEPT
             !.pc = "done", !.outcome = "rpc_failure",
             !.result = ResultOf(ad, op, "rpc_failure"),
             !.reason = ReasonOf(ad, op, "rpc_failure"),
             !.rpc = <<"submit">>]]

\* a handler that returns before building a payload
ReturnEarly(c, ad, op, t, asset, err) ==
  /\ calls' = [calls EXCEPT ![c] =
       [NewCall(ad, op, t, 0, 0, 0, asset) EXCEPT
          !.pc = "done", !.result = err]]
  /\ nsub' = nsub

CanSubmit == nsub < MaxTxs

\* transfers the initiator module holds or is about to create
PendingInitiates ==
  Cardinality({c \in Clients :
                 calls[c].op = "initiate" /\ calls[c].status = "pending"})
  + Cardinality({o \in orphans : o.op = "initiate"})
InitiatedIds == {t \in TransferIds : initiatorStore[t].state # "None"}

(* ------------------------- strings and bytes --------------------------- *)
\* a string is the sequence of its characters, a byte vector a sequence of
\* numbers in 0..255
Rep(x, n) == [i \in 1..n |-> x]

HexChars ==
  <<"0", "1", "2", "3", "4", "5", "6", "7", "8", "9",
    "a", "b", "c", "d", "e", "f">>
HexCharsUpper ==
  <<"0", "1", "2", "3", "4", "5", "6", "7", "8", "9",
    "A", "B", "C", "D", "E", "F">>

IsHexChar(ch) == \E i \in 1..16 : HexChars[i] = ch \/ HexCharsUpper[i] = ch
HexVal(ch) ==
  (CHOOSE i \in 1..16 : HexChars[i] = ch \/ HexCharsUpper[i] = ch) - 1
IsDigit(ch) == \E i \in 1..10 : HexChars[i] = ch

\* hex::encode: two lower-case digits per byte
hex_encode(bytes) ==
  [i \in 1..(2 * Len(bytes)) |->
     IF i % 2 = 1 THEN HexChars[(bytes[(i + 1) \div 2] \div 16) + 1]
                  ELSE HexChars[(bytes[i \div 2] % 16) + 1]]

\* hex::decode: an even number of hex digits of either case, else an error
hex_decode(s) ==
  IF Len(s) % 2 # 0 \/ \E i \in 1..Len(s) : ~IsHexChar(s[i])
  THEN [ok |-> FALSE, bytes |-> <<>>]
  ELSE [ok |-> TRUE,
        bytes |-> [i \in 1..(Len(s) \div 2) |->
                     (16 * HexVal(s[(2 * i) - 1])) + HexVal(s[2 * i])]]

RECURSIVE DecValue(_)
DecValue(ds) ==
  IF ds = <<>> THEN 0
  ELSE (10 * DecValue(SubSeq(ds, 1, Len(ds) - 1))) + HexVal(ds[Len(ds)])

RECURSIVE StripZeros(_)
StripZeros(s) ==
  IF s # <<>> /\ s[1] = "0" THEN StripZeros(Tail(s)) ELSE s

\* a u64 has at most 20 decimal digits
MaxU64Digits == 20

\* str::parse::<u64>: an optional "+", then one or more decimal digits whose
\* value fits 64 bits (the replies of this model carry numbers below 10^9
\* or numbers of more than MaxU64Digits digits)
parse_u64(s) ==
  LET ds == IF s # <<>> /\ s[1] = "+" THEN Tail(s) ELSE s
  IN IF ds = <<>> \/ \E i \in 1..Len(ds) : ~IsDigit(ds[i])
       THEN [ok |-> FALSE, n |-> 0]
     ELSE IF Len(StripZeros(ds)) > MaxU64Digits
       THEN [ok |-> FALSE, n |-> 0]
     ELSE [ok |-> TRUE, n |-> DecValue(StripZeros(ds))]

\* u64::to_string
RECURSIVE to_string(_)
to_string(n) ==
  IF n < 10 THEN <<HexChars[n + 1]>>
  ELSE to_string(n \div 10) \o <<HexChars[(n % 10) + 1]>>

\* AccountAddress::LENGTH
AddressLength == 32

\* AccountAddress::from_hex_literal: "0x", then at most 2 * AddressLength
\* hex digits, padded with zeros on the left
from_hex_literal(s) ==
  IF Len(s) < 2 \/ SubSeq(s, 1, 2) # <<"0", "x">>
    THEN [ok |-> FALSE, bytes |-> <<>>]
  ELSE IF Len(s) - 2 > 2 * AddressLength
    THEN [ok |-> FALSE, bytes |-> <<>>]
  ELSE hex_decode(Rep("0", (2 * AddressLength) - (Len(s) - 2))
                    \o SubSeq(s, 3, Len(s)))

\* &s[2..]: the string without its first two characters; the slice panics
\* on a string shorter than that
SliceFrom2(s) ==
  IF Len(s) < 2 THEN [ok |-> FALSE, s |-> <<>>]
  ELSE [ok |-> TRUE, s |-> SubSeq(s, 3, Len(s))]

(* ------------------------- transfer details --------------------------- *)
\* a serde_json::Value of a view reply: a string, a number or null
Str(s) == [k |-> "str", s |-> s, n |-> 0]
Num(n) == [k |-> "num", s |-> <<>>, n |-> n]
Null == [k |-> "null", s |-> <<>>, n |-> 0]

\* Vec::get: the element at a zero-based index, if there is one
get(values, i) == IF i + 1 \in DOMAIN values THEN values[i + 1] ELSE Null

\* utils::val_as_str_initiator: the string of a JSON string value
val_as_str_initiator(v) ==
  IF v.k = "str" THEN [ok |-> TRUE, s |-> v.s] ELSE [ok |-> FALSE, s |-> <<>>]

\* utils::val_as_u64_initiator: the number of a non-negative JSON number
val_as_u64_initiator(v) ==
  IF v.k = "num" /\ v.n >= 0 THEN [ok |-> TRUE, n |-> v.n]
  ELSE [ok |-> FALSE, n |-> 0]

\* the number of fields of a bridge_transfers reply
ResponseLength == 6
\* the number of bytes of a hash lock
HashLockLength == 32
\* the number of values of a u8
U8Values == 256

\* `as u8` keeps the low eight bits
AsU8(n) == n % U8Values

NoDetails ==
  [initiator_address |-> <<>>, recipient_address |-> <<>>, amount |-> 0,
   asset |-> "none", hash_lock |-> <<>>, time_lock |-> 0, state |-> 0]

ViewErr(err, parsed) ==
  [result |-> err, details |-> NoDetails, parsed |-> parsed]

\* the length check with a lower bound only
LengthAtLeast(values) == Len(values) >= ResponseLength
\* client.rs: values.len() != 6 is an error
LengthOk(values) == Len(values) = ResponseLength

\* get_bridge_transfer_details from the reply of the view: the value
\* returned (or "panic"), the details built, and the number of fields
\* taken from the reply before returning
ParseDetails(values) ==
  LET originator == val_as_str_initiator(get(values, 0))
      recipient == val_as_str_initiator(get(values, 1))
      amount_str == val_as_str_initiator(get(values, 2))
      amount == parse_u64(amount_str.s)
      hash_lock == val_as_str_initiator(get(values, 3))
      time_lock_str == val_as_str_initiator(get(values, 4))
      time_lock == parse_u64(time_lock_str.s)
      state == val_as_u64_initiator(get(values, 5))
      originator_address == from_hex_literal(originator.s)
      recipient_hex == SliceFrom2(recipient.s)
      recipient_address_bytes == hex_decode(recipient_hex.s)
      hash_lock_hex == SliceFrom2(hash_lock.s)
      hash_lock_array == hex_decode(hash_lock_hex.s)
  IN IF ~LengthOk(values) THEN ViewErr("InvalidResponseLength", 0)
     ELSE IF ~originator.ok THEN ViewErr("SerializationError", 0)
     ELSE IF ~recipient.ok THEN ViewErr("SerializationError", 1)
     ELSE IF ~amount_str.ok \/ ~amount.ok THEN ViewErr("SerializationError", 2)
     ELSE IF ~hash_lock.ok THEN ViewErr("SerializationError", 3)
     ELSE IF ~time_lock_str.ok \/ ~time_lock.ok
       THEN ViewErr("SerializationError", 4)
     ELSE IF ~state.ok THEN ViewErr("SerializationError", 5)
     ELSE IF ~originator_address.ok THEN ViewErr("SerializationError", 6)
     ELSE IF ~recipient_hex.ok THEN ViewErr("panic", 6)
     ELSE IF ~recipient_address_bytes.ok THEN ViewErr("SerializationError", 6)
     ELSE IF ~hash_lock_hex.ok THEN ViewErr("panic", 6)
     ELSE IF ~hash_lock_array.ok
             \/ Len(hash_lock_array.bytes) # HashLockLength
       THEN ViewErr("SerializationError", 6)
     ELSE [result |-> "Ok",
           details |->
             [initiator_address |-> originator_address.bytes,
              recipient_address |-> recipient_address_bytes.bytes,
              amount |-> amount.n,
              asset |-> "Moveth",
              hash_lock |-> hash_lock_array.bytes,
              time_lock |-> time_lock.n,
              state |-> AsU8(state.n)],
           parsed |-> ResponseLength]

\* the signer of the adapter and another account
SignerAddress == Rep(0, AddressLength - 1) \o <<1>>
OtherAddress == Rep(171, AddressLength)

\* the arguments of the initiate calls that create the transfer looked up
Initiators == {SignerAddress, OtherAddress}
Recipients == {<<>>, <<10, 11>>, Rep(1, 20)}
Amounts == {0, 100000000}
ViewHashLocks == {Rep(17, HashLockLength), [i \in 1..HashLockLength |-> i]}
ViewTimeLocks == {1, 300}

\* initiate_bridge_transfer: the arguments put on the wire, in order; the
\* initiator argument is not among them
InitiateArgs(initiator, recipient, hash_lock, time_lock, amount) ==
  [recipient |-> recipient, hash_lock |-> hash_lock,
   time_lock |-> time_lock, amount |-> amount]

\* the state number of an initialized transfer
INITIALIZED == 1

\* atomic_bridge_initiator::initiate_bridge_transfer: the transfer stored
\* for a transaction signed by signer
StoreTransfer(signer, args) ==
  [originator |-> signer, recipient |-> args.recipient,
   amount |-> args.amount, hash_lock |-> args.hash_lock,
   time_lock |-> args.time_lock, state |-> INITIALIZED]

\* AccountAddress::to_hex_literal: "0x" and the hex digits without leading
\* zeros
to_hex_literal(a) ==
  LET h == StripZeros(hex_encode(a))
  IN <<"0", "x">> \o (IF h = <<>> THEN <<"0">> ELSE h)

\* atomic_bridge_initiator::bridge_transfers as the REST API renders it:
\* addresses and byte vectors as hex literals, u64 as decimal strings, u8
\* as a number
EncodeView(tr) ==
  <<Str(to_hex_literal(tr.originator)),
    Str(<<"0", "x">> \o hex_encode(tr.recipient)),
    Str(to_string(tr.amount)),
    Str(<<"0", "x">> \o hex_encode(tr.hash_lock)),
    Str(to_string(tr.time_lock)),
    Num(tr.state)>>

NoArgs ==
  [initiator |-> <<>>, recipient |-> <<>>, hash_lock |-> <<>>,
   time_lock |-> 0, amount |-> 0]
NoStored ==
  [originator |-> <<>>, recipient |-> <<>>, amount |-> 0,
   hash_lock |-> <<>>, time_lock |-> 0, state |-> 0]

\* a get_bridge_transfer_details call: its position (pc), whether initiate
\* created the transfer, the arguments of that initiate and the transfer on
\* the chain, the reply of the view, the value returned, the details built,
\* the fields taken from the reply and the views issued
IdleView ==
  [pc |-> "idle", created |-> FALSE, args |-> NoArgs, chain |-> NoStored,
   reply |-> <<>>, responded |-> FALSE, result |-> "none",
   details |-> NoDetails, parsed |-> 0, nviews |-> 0]

(* ------------------------------ state ---------------------------------- *)
\* the chain is shared: when the adapters are constructed a transfer may
\* already be Initialized on the initiator module or Locked on the
\* counterparty module (under the hash lock of preimage 0)
Init ==
  /\ now = 0
  /\ initiatorStore \in
       [TransferIds -> {NoTransfer} \cup
          [state : {"Initialized"}, hash_lock : {Digest(0)}, time_lock : TimeLocks]]
  /\ counterpartyStore \in
       [TransferIds -> {NoTransfer} \cup
          [state : {"Locked"}, hash_lock : {Digest(0)}, time_lock : TimeLocks]]
  /\ calls = [c \in Clients |-> IdleCall]
  /\ orphans = {}
  /\ nsub = 0
  /\ view = IdleView

(* --------------------------- role operations --------------------------- *)
\* initiate_bridge_transfer without the match on the asset type
initiate_bridge_transfer_unchecked(c, h, tl, asset) ==
  /\ calls[c].pc = "idle"
  /\ CanSubmit
  /\ PendingInitiates + Cardinality(InitiatedIds) < Cardinality(TransferIds)
  /\ send_and_confirm_aptos_transaction(c, "service", "initiate", 0, h, tl,
                                        0, asset)
  /\ UNCHANGED <<view, now, initiatorStore, counterpartyStore, orphans>>

\* client.rs initiate_bridge_transfer
initiate_bridge_transfer(c, h, tl, asset) ==
  /\ calls[c].pc = "idle"
  /\ CanSubmit
  /\ PendingInitiates + Cardinality(InitiatedIds) < Cardinality(TransferIds)
  /\ IF asset # "Moveth"
     THEN ReturnEarly(c, "service", "initiate", 0, asset, "ConversionFailed")
     ELSE send_and_confirm_aptos_transaction(c, "service", "initiate", 0, h, tl,
                                             0, asset)
  /\ UNCHANGED <<view, now, initiatorStore, counterpartyStore, orphans>>

\* client.rs and lib.rs complete_bridge_transfer
complete_bridge_transfer(c, ad, t, p) ==
  /\ calls[c].pc = "idle"
  /\ CanSubmit
  /\ send_and_confirm_aptos_transaction(c, ad, "complete", t, 0, 0, p, "none")
  /\ UNCHANGED <<view, now, initiatorStore, counterpartyStore, orphans>>

\* client.rs lock_bridge_transfer
lock_bridge_transfer(c, t, h, tl, asset) ==
  /\ calls[c].pc = "idle"
  /\ CanSubmit
  /\ IF asset # "Moveth"
     THEN ReturnEarly(c, "service", "lock", t, asset, "SerializationError")
     ELSE send_and_confirm_aptos_transaction(c, "service", "lock", t, h, tl, 0,
                                             asset)
  /\ UNCHANGED <<view, now, initiatorStore, counterpartyStore, orphans>>

\* lib.rs lock_bridge_transfer_assets: the amount is encoded whatever its
\* asset type
lock_bridge_transfer_assets(c, t, h, tl) ==
  /\ calls[c].pc = "idle"
  /\ CanSubmit
  /\ send_and_confirm_aptos_transaction(c, "counterparty", "lock", t, h, tl, 0,
                                        "none")
  /\ UNCHANGED <<view, now, initiatorStore, counterpartyStore, orphans>>

\* client.rs refund_bridge_transfer
refund_bridge_transfer(c, t) ==
  /\ calls[c].pc = "idle"
  /\ CanSubmit
  /\ send_and_confirm_aptos_transaction(c, "service", "refund", t, 0, 0, 0,
                                        "none")
  /\ UNCHANGED <<view, now, initiatorStore, counterpartyStore, orphans>>

\* client.rs and lib.rs abort_bridge_transfer
abort_bridge_transfer(c, ad, t) ==
  /\ calls[c].pc = "idle"
  /\ CanSubmit
  /\ send_and_confirm_aptos_transaction(c, ad, "abort", t, 0, 0, 0, "none")
  /\ UNCHANGED <<view, now, initiatorStore, counterpartyStore, orphans>>

(* --------------------------- on-chain modules -------------------------- *)
\* the id the initiator module gives the next transfer
FreshId ==
  CHOOSE t \in TransferIds :
    /\ initiatorStore[t].state = "None"
    /\ \A u \in TransferIds : u < t => initiatorStore[u].state # "None"

\* whether the targeted module accepts the entry-function call
Accepts(tx) ==
  CASE tx.op = "initiate" -> TRUE
    [] tx.op = "lock" ->
         /\ counterpartyStore[tx.t].state = "None"
         /\ now < tx.time_lock
    [] tx.op = "complete" ->
         /\ counterpartyStore[tx.t].state = "Locked"
         /\ Digest(tx.preimage) = counterpartyStore[tx.t].hash_lock
    [] tx.op = "abort" ->
         /\ counterpartyStore[tx.t].state = "Locked"
         /\ now >= counterpartyStore[tx.t].time_lock
    [] tx.op = "refund" ->
         /\ initiatorStore[tx.t].state = "Initialized"
         /\ now >= initiatorStore[tx.t].time_lock

TargetId(tx) == IF tx.op = "initiate" THEN FreshId ELSE tx.t

\* the effect of a transaction on the two modules; a rejected call reverts
\* and leaves both as they were
Apply(tx) ==
  LET ok == Accepts(tx)
      id == TargetId(tx)
  IN /\ initiatorStore' =
          IF ~ok THEN initiatorStore
          ELSE CASE tx.op = "initiate" ->
                      [initiatorStore EXCEPT ![id] =
                         [state |-> "Initialized",
                          hash_lock |-> tx.hash_lock,
                          time_lock |-> tx.time_lock]]
                 [] tx.op = "refund" ->
                      [initiatorStore EXCEPT ![id].state = "Refunded"]
                 [] OTHER -> initiatorStore
     /\ counterpartyStore' =
          IF ~ok THEN counterpartyStore
          ELSE CASE tx.op = "lock" ->
                      [counterpartyStore EXCEPT ![id] =
                         [state |-> "Locked",
                          hash_lock |-> tx.hash_lock,
                          time_lock |-> tx.time_lock]]
                 [] tx.op = "complete" ->
                      [counterpartyStore EXCEPT ![id].state = "Completed"]
                 [] tx.op = "abort" ->
                      [counterpartyStore EXCEPT ![id].state = "Aborted"]
                 [] OTHER -> counterpartyStore

\* the chain executes the transaction a call submitted
Execute(c) ==
  /\ calls[c].status = "pending"
  /\ LET tx == PayloadOf(calls[c])
     IN /\ Apply(tx)
        /\ calls' = [calls EXCEPT ![c] =
             [@ EXCEPT !.status = IF Accepts(tx) THEN "executed" ELSE "reverted",
                       !.t = TargetId(tx),
                       !.pre = StateOf(tx.op, TargetId(tx)), !.at = now]]
  /\ UNCHANGED <<view, now, orphans, nsub>>

\* the chain executes a transaction whose call has already returned
ExecuteOrphan(tx) ==
  /\ tx \in orphans
  /\ Apply(tx)
  /\ orphans' = orphans \ {tx}
  /\ UNCHANGED <<view, now, calls, nsub>>

\* the chain clock advances
Tick ==
  /\ now < MaxTime
  /\ now' = now + 1
  /\ UNCHANGED <<view, initiatorStore, counterpartyStore, calls, orphans, nsub>>

(* ------------------- the await point of a handler ---------------------- *)
\* the awaited confirmation arrives: the transaction was executed or reverted
Confirm(c) ==
  /\ calls[c].pc = "inflight"
  /\ calls[c].status \in {"executed", "reverted"}
  /\ LET outcome == IF calls[c].status = "executed"
                    THEN "confirmed" ELSE "reverted"
     IN calls' = [calls EXCEPT ![c].pc = "done",
                               ![c].outcome = outcome,
                               ![c].result =
                                  ResultOf(calls[c].adapter, calls[c].op, outcome),
                               ![c].reason =
                                  ReasonOf(calls[c].adapter, calls[c].op, outcome)]
  /\ UNCHANGED <<view, now, initiatorStore, counterpartyStore, orphans, nsub>>

\* the confirmation wait times out; the transaction stays where it is
Timeout(c) ==
  /\ calls[c].pc = "inflight"
  /\ calls' = [calls EXCEPT ![c].pc = "done",
                            ![c].outcome = "timeout",
                            ![c].result =
                               ResultOf(calls[c].adapter, calls[c].op, "timeout"),
                            ![c].reason =
                               ReasonOf(calls[c].adapter, calls[c].op, "timeout")]
  /\ UNCHANGED <<view, now, initiatorStore, counterpartyStore, orphans, nsub>>

\* the caller takes the returned value and the handle is free again; a
\* transaction still pending stays with the chain
Return(c) ==
  /\ calls[c].pc = "done"
  /\ calls' = [calls EXCEPT ![c] = IdleCall]
  /\ orphans' = IF calls[c].status = "pending"
                THEN orphans \cup {PayloadOf(calls[c])}
                ELSE orphans
  /\ UNCHANGED <<view, now, initiatorStore, counterpartyStore, nsub>>

Next ==
  \/ \E c \in Clients, h \in HashLocks, tl \in TimeLocks, a \in AssetTypes :
       initiate_bridge_transfer(c, h, tl, a)
  \/ \E c \in Clients, ad \in Adapters, t \in TransferIds, p \in PreImages :
       complete_bridge_transfer(c, ad, t, p)
  \/ \E c \in Clients, t \in TransferIds, h \in HashLocks, tl \in TimeLocks,
        a \in AssetTypes :
       lock_bridge_transfer(c, t, h, tl, a)
  \/ \E c \in Clients, t \in TransferIds, h \in HashLocks, tl \in TimeLocks :
       lock_bridge_transfer_assets(c, t, h, tl)
  \/ \E c \in Clients, t \in TransferIds : refund_bridge_transfer(c, t)
  \/ \E c \in Clients, ad \in Adapters, t \in TransferIds :
       abort_bridge_transfer(c, ad, t)
  \/ \E c \in Clients : Execute(c)
  \/ \E tx \in orphans : ExecuteOrphan(tx)
  \/ \E c \in Clients : Confirm(c)
  \/ \E c \in Clients : Timeout(c)
  \/ \E c \in Clients : Return(c)
  \/ Tick

Spec == Init /\ [][Next]_vars

(* ------------------------ transfer lookup ------------------------------ *)
\* a well-formed reply, and the values a node may put in one of its fields
GoodReply ==
  EncodeView(StoreTransfer(SignerAddress,
                           InitiateArgs(SignerAddress, <<10, 11>>,
                                        Rep(17, HashLockLength), 300, 7)))
FieldValues ==
  {Null, Num(3), Num(255), Num(256), Num(-1),
   Str(<<>>), Str(<<"0">>), Str(<<"0", "x">>), Str(<<"1", "2">>),
   Str(<<"+", "5">>), Str(<<"0", "0", "7">>), Str(<<"1", "x">>),
   Str(<<"0", "x", "0", "A">>), Str(<<"z", "z", "0", "a">>),
   Str(<<"0", "x", "z", "z">>), Str(<<"0", "x", "a">>),
   Str(Rep("9", MaxU64Digits + 1)),
   Str(<<"z", "z">> \o Rep("1", 2 * HashLockLength))}
SampleReplies ==
  {[GoodReply EXCEPT ![i] = v] : i \in 1..ResponseLength, v \in FieldValues}
    \cup {<<>>, SubSeq(GoodReply, 1, ResponseLength - 1),
          GoodReply \o <<Num(0)>>}

\* the replies the view may get: that of the chain for the transfer
\* initiate created, or any of the samples
Replies ==
  SampleReplies \cup (IF view.created THEN {EncodeView(view.chain)} ELSE {})

\* initiate_bridge_transfer, submitted and confirmed: the chain stores the
\* transfer under the signer of the transaction
initiate_and_store(initiator, recipient, hash_lock, time_lock, amount) ==
  /\ view.pc = "idle"
  /\ ~view.created
  /\ view' =
       [view EXCEPT
          !.created = TRUE,
          !.args = [initiator |-> initiator, recipient |-> recipient,
                    hash_lock |-> hash_lock, time_lock |-> time_lock,
                    amount |-> amount],
          !.chain = StoreTransfer(SignerAddress,
                                  InitiateArgs(initiator, recipient, hash_lock,
                                               time_lock, amount))]
  /\ UNCHANGED <<now, initiatorStore, counterpartyStore, calls, orphans, nsub>>

\* get_bridge_transfer_details up to the await of the view
view_request ==
  /\ view.pc = "idle"
  /\ view' = [view EXCEPT !.pc = "awaiting", !.nviews = @ + 1]
  /\ UNCHANGED <<now, initiatorStore, counterpartyStore, calls, orphans, nsub>>

\* the view answers: the rest of get_bridge_transfer_details
view_response(values) ==
  /\ view.pc = "awaiting"
  /\ values \in Replies
  /\ LET r == ParseDetails(values)
     IN view' = [view EXCEPT !.pc = "done", !.reply = values,
                             !.responded = TRUE, !.result = r.result,
                             !.details = r.details, !.parsed = r.parsed]
  /\ UNCHANGED <<now, initiatorStore, counterpartyStore, calls, orphans, nsub>>

\* the view fails: get_bridge_transfer_details returns CallError
view_error ==
  /\ view.pc = "awaiting"
  /\ view' = [view EXCEPT !.pc = "done", !.result = "CallError"]
  /\ UNCHANGED <<now, initiatorStore, counterpartyStore, calls, orphans, nsub>>

\* the caller takes the result and the next lookup starts afresh
view_return ==
  /\ view.pc = "done"
  /\ view' = IdleView
  /\ UNCHANGED <<now, initiatorStore, counterpartyStore, calls, orphans, nsub>>

InitView ==
  /\ Init
  /\ initiatorStore = [t \in TransferIds |-> NoTransfer]
  /\ counterpartyStore = [t \in TransferIds |-> NoTransfer]

NextView ==
  \/ \E initiator \in Initiators, recipient \in Recipients,
        hash_lock \in ViewHashLocks, time_lock \in ViewTimeLocks,
        amount \in Amounts :
       initiate_and_store(initiator, recipient, hash_lock, time_lock, amount)
  \/ view_request
  \/ \E values \in Replies : view_response(values)
  \/ view_error
  \/ view_return

SpecView == InitView /\ [][NextView]_vars

(* ------------------------------ claims --------------------------------- *)
Done(c) == calls[c].pc = "done"
Failed == {"reverted", "rpc_failure", "timeout"}
IsError(r) == r \notin {"Ok", "none"}

\* C1: a lock call whose submission or confirmation failed (revert, RPC
\* failure, confirmation timeout) returns LockTransferError (the lib.rs
\* adapter: LockTransferAssetsError) and never Ok(()).
C1_LockFailurePropagates ==
  \A c \in Clients :
    (Done(c) /\ calls[c].op = "lock" /\ calls[c].outcome \in Failed)
      => calls[c].result \in {"LockTransferError", "LockTransferAssetsError"}

\* C2: a complete call whose submission or confirmation failed returns
\* CompleteTransferError and never Ok(()).
C2_CompleteFailurePropagates ==
  \A c \in Clients :
    (Done(c) /\ calls[c].op = "complete" /\ calls[c].outcome \in Failed)
      => calls[c].result = "CompleteTransferError"

\* C3: an abort call whose submission or confirmation failed returns
\* AbortTransferError and never Ok(()).
C3_AbortFailurePropagates ==
  \A c \in Clients :
    (Done(c) /\ calls[c].op = "abort" /\ calls[c].outcome \in Failed)
      => calls[c].result = "AbortTransferError"

\* C4: for a Locked transfer with hash lock h, complete(t, p) returns success
\* iff Digest(p) = h; with any other p it returns a completion error and
\* its transaction leaves the transfer as it was.
C4_CompleteIffDigestMatches ==
  \A c \in Clients :
    (/\ Done(c)
     /\ calls[c].op = "complete"
     /\ calls[c].outcome \in {"confirmed", "reverted"}
     /\ calls[c].pre = "Locked")
      => LET match == Digest(calls[c].preimage)
                        = counterpartyStore[calls[c].t].hash_lock
         IN /\ (calls[c].result = "Ok") <=> match
            /\ ~match => /\ calls[c].result = "CompleteTransferError"
                         /\ calls[c].status = "reverted"

\* C5: once State(t) is terminal it never changes again, and every role
\* operation whose transaction reaches the chain in a terminal state returns
\* an error.
C5_TerminalIsFinal ==
  [][/\ \A t \in TransferIds :
          /\ initiatorStore[t].state \in Terminal
               => initiatorStore'[t] = initiatorStore[t]
          /\ counterpartyStore[t].state \in Terminal
               => counterpartyStore'[t] = counterpartyStore[t]
     /\ \A c \in Clients :
          (/\ calls'[c].pc = "done"
           /\ calls'[c].op \in RoleOps
           /\ calls'[c].pre \in Terminal)
            => IsError(calls'[c].result)]_vars

\* C6: abort returns success only if its transaction was executed with the
\* transfer Locked at a time at or past its time lock; an abort the chain
\* rejected (too early, or in another state) returns an error.
C6_AbortOnlyLockedAndExpired ==
  \A c \in Clients :
    (Done(c) /\ calls[c].op = "abort")
      => /\ calls[c].result = "Ok"
              => /\ calls[c].status = "executed"
                 /\ calls[c].pre = "Locked"
                 /\ calls[c].at >= counterpartyStore[calls[c].t].time_lock
         /\ calls[c].status = "reverted" => IsError(calls[c].result)

\* C7: refund returns success only if its transaction was executed with the
\* transfer Initialized at a time at or past its time lock; a refund the
\* chain rejected (too early, or in another state) returns an error.
C7_RefundOnlyInitializedAndExpired ==
  \A c \in Clients :
    (Done(c) /\ calls[c].op = "refund")
      => /\ calls[c].result = "Ok"
              => /\ calls[c].status = "executed"
                 /\ calls[c].pre = "Initialized"
                 /\ calls[c].at >= initiatorStore[calls[c].t].time_lock
         /\ calls[c].status = "reverted" => IsError(calls[c].result)

\* a refund of an Initialized transfer past its time lock returned Ok(())
C7_Witness ==
  \E c \in Clients :
    /\ Done(c)
    /\ calls[c].op = "refund"
    /\ calls[c].result = "Ok"
    /\ initiatorStore[calls[c].t].state = "Refunded"
    /\ now >= initiatorStore[calls[c].t].time_lock

\* C8: two lock calls for the same TransferId are never in flight together,
\* at most one of them takes effect on the chain, and both return the same
\* value.
C8_LockSerialized ==
  \A c1 \in Clients : \A c2 \in Clients \ {c1} :
    (/\ calls[c1].op = "lock"
     /\ calls[c2].op = "lock"
     /\ calls[c1].t = calls[c2].t)
      => /\ ~(calls[c1].pc = "inflight" /\ calls[c2].pc = "inflight")
         /\ ~(calls[c1].status = "executed" /\ calls[c2].status = "executed")
         /\ (Done(c1) /\ Done(c2)) => calls[c1].result = calls[c2].result

\* C9: while a caller holds the confirmation of an operation on a transfer,
\* the same operation called again for that transfer submits no transaction,
\* and the chain's state is the same after the retry as before it.
C9_NoResubmitAfterConfirmed ==
  [][\A c1 \in Clients : \A c2 \in Clients \ {c1} :
       (/\ Done(c1)
        /\ calls[c1].outcome = "confirmed"
        /\ calls[c1].op \in RoleOps
        /\ calls'[c2].op = calls[c1].op
        /\ calls'[c2].t = calls[c1].t)
         => /\ calls[c2].pc = "idle" => nsub' = nsub
            /\ (calls[c2].status = "pending" /\ calls'[c2].status # "pending")
                 => /\ initiatorStore' = initiatorStore
                    /\ counterpartyStore' = counterpartyStore]_vars

\* C10: a call whose confirmation wait timed out has issued a view request
\* after its submission before it returns a value.
C10_TimeoutRequeries ==
  \A c \in Clients :
    (Done(c) /\ calls[c].outcome = "timeout")
      => \E i \in DOMAIN calls[c].rpc :
           i > 1 /\ calls[c].rpc[i] = "view"

\* C12: an initiate call with an amount of any asset type but Moveth returns
\* ConversionFailed without building or submitting a transaction.
C12_InitiateRejectsOtherAssets ==
  \A c \in Clients :
    (calls[c].op = "initiate" /\ calls[c].asset # "Moveth")
      => /\ Done(c)
         /\ calls[c].result = "ConversionFailed"
         /\ calls[c].status = "none"
         /\ calls[c].rpc = <<>>

\* an initiate call with an EthAndWeth amount has returned ConversionFailed
C12_Witness ==
  \E c \in Clients :
    /\ Done(c)
    /\ calls[c].op = "initiate"
    /\ calls[c].asset = "EthAndWeth"
    /\ calls[c].result = "ConversionFailed"

\* C16: an initiate call whose submission or confirmation failed returns
\* InitiateTransferError; it returns Ok(()) only after its transaction was
\* executed and the confirmation arrived.
C16_InitiateFailurePropagates ==
  \A c \in Clients :
    (Done(c) /\ calls[c].op = "initiate" /\ calls[c].asset = "Moveth")
      => /\ calls[c].outcome \in Failed
              => calls[c].result = "InitiateTransferError"
         /\ calls[c].result = "Ok"
              => /\ calls[c].outcome = "confirmed"
                 /\ calls[c].status = "executed"

\* an initiate call whose confirmation wait timed out (or whose transaction
\* reverted, or whose RPC failed) has returned InitiateTransferError
C16_Witness ==
  \E c \in Clients :
    /\ Done(c)
    /\ calls[c].op = "initiate"
    /\ calls[c].outcome = "timeout"
    /\ calls[c].result = "InitiateTransferError"

\* C17: a refund call whose submission or confirmation failed returns
\* OnChainError carrying the text of the underlying failure, never Ok(()).
C17_RefundFailureCarriesReason ==
  \A c \in Clients :
    (Done(c) /\ calls[c].op = "refund" /\ calls[c].outcome \in Failed)
      => /\ calls[c].result = "OnChainError"
         /\ calls[c].reason = ErrorText(calls[c].outcome)
         /\ calls[c].reason # ""

\* a refund the chain reverted has returned OnChainError with the revert text
C17_Witness ==
  \E c \in Clients :
    /\ Done(c)
    /\ calls[c].op = "refund"
    /\ calls[c].outcome = "reverted"
    /\ calls[c].result = "OnChainError"
    /\ calls[c].reason = "transaction reverted on chain"

\* C18: a lock call (client.rs) with an amount of any asset type but Moveth
\* submits no transaction and returns ConversionFailed, as initiate does.
C18_LockRejectsOtherAssetsAsConversionFailed ==
  \A c \in Clients :
    (/\ calls[c].op = "lock"
     /\ calls[c].adapter = "service"
     /\ calls[c].asset # "Moveth")
      => /\ Done(c)
         /\ calls[c].result = "ConversionFailed"
         /\ calls[c].rpc = <<>>

ViewDone == view.pc = "done"

\* the semantic type of each field of a six-field reply
WellFormed(values) ==
  /\ get(values, 0).k = "str" /\ from_hex_literal(get(values, 0).s).ok
  /\ get(values, 1).k = "str"
  /\ Len(get(values, 1).s) >= 2
  /\ SubSeq(get(values, 1).s, 1, 2) = <<"0", "x">>
  /\ hex_decode(SubSeq(get(values, 1).s, 3, Len(get(values, 1).s))).ok
  /\ get(values, 2).k = "str" /\ parse_u64(get(values, 2).s).ok
  /\ get(values, 3).k = "str"
  /\ Len(get(values, 3).s) = 2 + (2 * HashLockLength)
  /\ SubSeq(get(values, 3).s, 1, 2) = <<"0", "x">>
  /\ hex_decode(SubSeq(get(values, 3).s, 3, Len(get(values, 3).s))).ok
  /\ get(values, 4).k = "str" /\ parse_u64(get(values, 4).s).ok
  /\ get(values, 5).k = "num" /\ get(values, 5).n >= 0

\* C11: get_bridge_transfer_details of a transfer created by initiate, on
\* the reply of the chain, returns Ok with the initiator, recipient, amount,
\* hash lock and time lock that were passed to initiate.
C11_DetailsRoundTrip ==
  (ViewDone /\ view.created /\ view.responded
     /\ view.reply = EncodeView(view.chain))
    => /\ view.result = "Ok"
       /\ view.details.initiator_address = view.args.initiator
       /\ view.details.recipient_address = view.args.recipient
       /\ view.details.amount = view.args.amount
       /\ view.details.asset = "Moveth"
       /\ view.details.hash_lock = view.args.hash_lock
       /\ view.details.time_lock = view.args.time_lock

\* C13: get_bridge_transfer_details returns InvalidResponseLength exactly
\* when the view answered with a reply that has not exactly 6 fields; then
\* no field was taken from the reply, no details were built and the view
\* was issued once.
C13_InvalidResponseLengthIffNotSix ==
  ViewDone
    => /\ (view.result = "InvalidResponseLength")
            <=> (view.responded /\ Len(view.reply) # 6)
       /\ (view.result = "InvalidResponseLength")
            => /\ view.parsed = 0
               /\ view.details = NoDetails
               /\ view.nviews = 1

C13_Witness ==
  /\ ViewDone
  /\ view.responded
  /\ Len(view.reply) = 7
  /\ view.result = "InvalidResponseLength"

\* C14: on a six-field reply with a field that is not of its semantic
\* type, get_bridge_transfer_details returns SerializationError; it never
\* panics.
C14_MalformedFieldIsSerializationError ==
  /\ view.result # "panic"
  /\ (ViewDone /\ view.responded /\ Len(view.reply) = 6
         /\ ~WellFormed(view.reply))
       => view.result = "SerializationError"

\* C20: the state of the details returned equals the sixth field of the
\* reply.
C20_StateNotReduced ==
  (ViewDone /\ view.result = "Ok")
    => view.details.state = get(view.reply, 5).n

\* C15: once a complete call with the matching preimage is confirmed for a
\* transfer that was initiated and locked, the transfer is Completed on the
\* initiator module and on the counterparty module, and a refund of it
\* returns an error.
C15_CompletedOnBothSides ==
  \A c \in Clients :
    /\ (/\ Done(c)
        /\ calls[c].op = "complete"
        /\ calls[c].outcome = "confirmed"
        /\ initiatorStore[calls[c].t].state # "None")
         => /\ counterpartyStore[calls[c].t].state = "Completed"
            /\ initiatorStore[calls[c].t].state = "Completed"
    /\ (/\ Done(c)
        /\ calls[c].op = "refund"
        /\ calls[c].status \in {"executed", "reverted"}
        /\ counterpartyStore[calls[c].t].state = "Completed")
         => IsError(calls[c].result)

\* C19: every payload a handler builds has the argument list fixed for its
\* operation, and the two adapters build the same entry function and
\* argument list for the same operation.
C19_FixedArgumentLists ==
  \A c \in Clients :
    calls[c].rpc # <<>>
      => LET op == calls[c].op
             built == make_aptos_payload(calls[c].adapter, op)
             expected ==
               CASE op = "lock" ->
                      <<"initiator", "bridge_transfer_id", "hash_lock",
                        "time_lock", "recipient", "amount">>
                 [] op = "complete" -> <<"bridge_transfer_id", "preimage">>
                 [] op \in {"abort", "refund"} -> <<"bridge_transfer_id">>
                 [] op = "initiate" ->
                      <<"recipient", "hash_lock", "time_lock", "amount">>
         IN /\ built.args = expected
            /\ \A ad \in Adapters :
                 (ad = "service" \/ op \in {"lock", "complete", "abort"})
                   => /\ make_aptos_payload(ad, op).function = built.function
                      /\ make_aptos_payload(ad, op).args = built.args

====
